---- MODULE Spec2Model ----
(***************************************************************************)
(* git-worktree-app: the application state (App), the render loop, the     *)
(* raw-key input handler with its action dispatch, the two-step delete     *)
(* flow and the task-metadata refresh.                                     *)
(*                                                                         *)
(* The program is single-threaded: every action below is one callback of   *)
(* the event loop (a render tick, a key event, a timer, the completion of  *)
(* a child process or of a network request) run to completion, microtask   *)
(* continuations included.                                                 *)
(***************************************************************************)
EXTENDS Integers, Sequences, FiniteSets, TLC

VARIABLES
  App,          \* the App singleton: page, previousPage, mode, selected, paths,
                \* token, status, taskStatus, tasks, actions
  wtTimers,     \* deleteSelectedWorktree calls waiting in setTimeout(250): a sequence of branches
  brDel,        \* deleteSelectedBranch calls whose two exec callbacks are outstanding
  batches,      \* refetchTasks / refetchSelected calls: the fetches of each and what follows them
  statusTimers, \* number of pending setTimeout(clearStatus, timeout)
  keyTimers,    \* the keys whose synthesized release is pending, in the order of their timers
  git,          \* the git commands issued by the event handled last, as a set of [cmd, branch]
  removed,      \* branches whose `git worktree remove` has succeeded
  store,        \* content of the persisted task store (Files.tasks)
  running,      \* FALSE once process.exit was called
  calls,        \* the action callbacks the event handled last invoked, in order: <<owner, label>>
  _running,     \* the ids runOnce holds as running
  loads,        \* the Clickup.getStatuses requests in flight: for each, the cache its caller had read
  statuses,     \* content of the file of the status cache (Files.statuses)
  nkeys         \* number of keys received so far

vars ==
  <<App, wtTimers, brDel, batches, statusTimers, keyTimers, git, removed, store, running,
    calls, _running, loads, statuses, nkeys>>

----------------------------------------------------------------------------
(* Bounds *)

MaxTimers == 1      \* pending status-expiry timers
MaxWtTimers == 2    \* pending worktree-remove delays
MaxBrDel == 1       \* branch-delete flows in flight
MaxBatches == 1     \* refresh batches with a fetch in flight
MaxKeyTimers == 2   \* pending key-release timers
MaxKeys == 5        \* keys received in one run
MaxActions == 2     \* stub actions registered with App.addAction
MaxStubKeys == 1    \* keys received by the stub actions
MaxFlowKeys == 3    \* keys received in one run of the delete flow under fairness
MaxLoads == 2       \* Clickup.getStatuses requests in flight
MaxEditKeys == 3    \* keys received in one run of the edit-task page
MaxTokenKeys == 3   \* keys received in one run without a token
MaxFetchKeys == 2   \* keys received while the fetches of main are in flight
MaxConsumeActions == 1  \* stub actions registered where consumeKey has other callers
MaxConsumeKeys == 1     \* keys received where consumeKey has other callers
MaxInputKeys == 4       \* keys received in one run of the version with the App.input buffer
MaxAddKeys == 5         \* keys received in one run of the add page
MaxFormKeys == 4        \* keys received in one run of the pages with a form
MaxNavKeys == 4         \* keys received in one run of the navigation keys

----------------------------------------------------------------------------
(* Worktree paths and branch names are sequences of pieces of text; "/"    *)
(* separates the directory of a path from its last component, and "-" is   *)
(* the only piece that is not made of word characters.                     *)

Master == <<"master">>
TaskA == <<"a">>
TaskBA == <<"b", "a">>
NoBranch == <<"undefined">>   \* App.paths[App.selected] when the index is out of range

BranchU == {Master, TaskA, TaskBA}

\* the path of the worktree of a branch
PathOf(branch) == <<"w", "/">> \o branch

InitPaths == {<<PathOf(TaskBA), PathOf(TaskA)>>}

Pages == {"idle", "update", "token", "add", "edit-task", "delete-worktree", "delete-branch"}

Keys == {"d", "y", "n", "j", "k", "a", "u", "s", "t", "e", "/", "Esc", "q"}

\* basename(path): what follows the last separator
getTaskFromPath(path) ==
  LET seps == {i \in 1..Len(path) : path[i] = "/"}
      last == IF seps = {} THEN 0 ELSE CHOOSE i \in seps : \A j \in seps : j <= i
  IN SubSeq(path, last + 1, Len(path))

\* /^[\w\d]+$/.test(branch) and none of "master", "solo-", "mob-", "fix-", "feat" included
isTask(branch) ==
  /\ \A i \in 1..Len(branch) : branch[i] # "-"
  /\ \A i \in 1..Len(branch) : branch[i] \notin {"master", "feat", "undefined"}

\* path.endsWith(branch)
endsWith(path, branch) ==
  /\ Len(branch) <= Len(path)
  /\ SubSeq(path, Len(path) - Len(branch) + 1, Len(path)) = branch

Min(a, b) == IF a < b THEN a ELSE b
Max(a, b) == IF a > b THEN a ELSE b

----------------------------------------------------------------------------
(* Statuses *)

\* a message is the sequence of the pieces it is concatenated from
NoStatus == [type |-> "none", message |-> <<>>]
Status(type, message) == [type |-> type, message |-> message]

\* message.includes("CLICKUP_TOKEN"): of the messages the program sets, one contains it
includesToken(message) == \E i \in 1..Len(message) : message[i] = "Missing CLICKUP_TOKEN"

\* the error texts a failing child process or request can carry
Errors == {"E1"}

\* Task metadata: absent, as read from the store at startup, as returned by Clickup.getTask
\* task.list.id: the tasks are all of one list
ListId == "L"

NoTask == "none"
OldTask == "old"
NewTask == "new"

----------------------------------------------------------------------------
(* The world a callback runs in: App and everything a callback can start   *)
(* or write.  Callbacks are operators from world to world, composed in     *)
(* the order of the statements of the source.                              *)

World ==
  [App |-> App, wtTimers |-> wtTimers, brDel |-> brDel, batches |-> batches,
   statusTimers |-> statusTimers, keyTimers |-> keyTimers, git |-> {}, removed |-> removed,
   store |-> store, running |-> running, calls |-> <<>>, _running |-> _running,
   loads |-> loads, statuses |-> statuses, overflow |-> FALSE, throws |-> 0]

\* process.exit(0) ends the process: its memory, timers and callbacks are gone, what
\* it wrote to the store and did to the repository stays
Exited(w) ==
  [w EXCEPT !.App = [page |-> "exited"], !.wtTimers = <<>>, !.brDel = <<>>,
            !.batches = <<>>, !.statusTimers = 0, !.keyTimers = <<>>,
            !._running = {}, !.loads = <<>>]

Apply(w0) ==
  LET w == IF w0.running THEN w0 ELSE Exited(w0)
  IN /\ App' = w.App
     /\ wtTimers' = w.wtTimers
     /\ brDel' = w.brDel
     /\ batches' = w.batches
     /\ statusTimers' = w.statusTimers
     /\ keyTimers' = w.keyTimers
     /\ git' = w.git
     /\ removed' = w.removed
     /\ store' = w.store
     /\ running' = w.running
     /\ calls' = w.calls
     /\ _running' = w._running
     /\ loads' = w.loads
     /\ statuses' = w.statuses

----------------------------------------------------------------------------
(* App methods *)

\* toPage that leaves the text buffer as it is
toPageKeepsInput(w, p) ==
  [w EXCEPT !.App.previousPage = w.App.page, !.App.page = p]

\* toPage that does not record the page it leaves
toPageForgetful(w, p) ==
  [w EXCEPT !.App.page = p, !.App.input = IF p = "token" THEN <<>> ELSE @]

\* entering the token page empties the text buffer
toPage(w, p) ==
  [w EXCEPT !.App.previousPage = w.App.page, !.App.page = p,
            !.App.input = IF p = "token" THEN <<>> ELSE @]

\* previousPage that never goes back
previousPageStay(w) == w

previousPage(w) ==
  IF w.App.previousPage # "none" THEN toPage(w, w.App.previousPage) ELSE w

\* timeout: whether a timeout was passed; then a timer that clears the status is started
setStatus(w, type, message, timeout) ==
  [w EXCEPT !.App.status = Status(type, message),
            !.statusTimers = IF timeout THEN @ + 1 ELSE @]

clearStatus(w) == [w EXCEPT !.App.status = NoStatus]

setTaskStatus(w, taskId, type, message) ==
  [w EXCEPT !.App.taskStatus[taskId] = Status(type, message)]

\* App.clearTaskStatus(taskId)
clearTaskStatus(w, taskId) ==
  [w EXCEPT !.App.taskStatus[taskId] = NoStatus]

\* App.clearTaskStatus() without a task id
clearAllTaskStatus(w) ==
  [w EXCEPT !.App.taskStatus = [b \in DOMAIN w.App.taskStatus |-> NoStatus]]

\* selected is the 0-based index of the source
getSelectedBranch(A) ==
  IF A.selected >= 0 /\ A.selected < Len(A.paths)
    THEN getTaskFromPath(A.paths[A.selected + 1])
    ELSE NoBranch

selectNext(w) ==
  [w EXCEPT !.App.selected = Min(Len(w.App.paths) - 1, w.App.selected + 1)]

selectPrevious(w) ==
  [w EXCEPT !.App.selected = Max(0, w.App.selected - 1)]

\* App.selectFirst(), App.selectLast(): the first and the last path of the list
selectFirst(w) == [w EXCEPT !.App.selected = 0]

selectLast(w) == [w EXCEPT !.App.selected = Len(w.App.paths) - 1]

setPaths(w, paths) == [w EXCEPT !.App.paths = paths]

\* App.taskIds: the branches of the path list that are tasks
taskIds(A) == SelectSeq([i \in 1..Len(A.paths) |-> getTaskFromPath(A.paths[i])], isTask)

\* App.setKeyState(key, pressed): the held flag of the key
setKeyState(w, key, pressed) ==
  [w EXCEPT !.App.keys = IF pressed THEN @ \cup {key} ELSE @ \ {key}]

\* App.updateKeyStates(): it clears the just-pressed and just-released marks of the
\* frame, which are not part of this model; the held flags stay
updateKeyStates(w) == w

----------------------------------------------------------------------------
(* Forms.  A container holds the names of its elements in the order they   *)
(* were added, the value map keyed by element name, the valid flag of each *)
(* element, the focus index and whether the focused element has the focus. *)
(* A text value is the sequence of the keys typed; a checkbox is a flag.   *)

\* new Form.Input() / new Form.Checkbox(): the elements as index.ts declares them
TokenElements == <<"token">>
AddElements == <<"branch", "create", "path", "commit">>
EditElements == <<"status", "done">>
SearchElements == <<"search">>

ElementType(name) ==
  CASE name \in {"create", "done"} -> "checkbox"
    [] name = "status" -> "select"
    [] OTHER -> "input"

\* the value of an element without a declared default: no text, not checked,
\* no option selected
EmptyValue(name) ==
  CASE ElementType(name) = "checkbox" -> FALSE
    [] ElementType(name) = "select" -> "none"
    [] OTHER -> <<>>

\* new Form.Container(), for the elements that will be added to it; no default
\* is declared
Container(names) ==
  [elements |-> <<>>,
   value |-> [n \in {names[i] : i \in 1..Len(names)} |-> EmptyValue(n)],
   initialValue |-> [n \in {names[i] : i \in 1..Len(names)} |-> EmptyValue(n)],
   valid |-> [n \in {names[i] : i \in 1..Len(names)} |-> TRUE],
   focus |-> 0,
   focused |-> FALSE]

registered(c, name) == \E i \in 1..Len(c.elements) : c.elements[i] = name

\* add() that registers the element again and starts its value afresh
addAgain(c, name) ==
  [c EXCEPT !.elements = Append(@, name), !.value[name] = c.initialValue[name]]

\* Container.add(element): an element whose name is registered is not added again
add(c, name) ==
  IF registered(c, name) THEN c
  ELSE [c EXCEPT !.elements = Append(@, name)]

\* reset() that empties the values and leaves the focus where it is
resetEmpties(c) ==
  [c EXCEPT !.value = [n \in DOMAIN c.value |-> EmptyValue(n)],
            !.focused = FALSE]

\* Container.reset(): the values go back to their defaults, the focus to the first element
reset(c) ==
  [c EXCEPT !.value = c.initialValue,
            !.focus = 0,
            !.focused = FALSE]

\* Container.clear(): the values are emptied
clear(c) == [c EXCEPT !.value = [n \in DOMAIN c.value |-> EmptyValue(n)]]

\* Container.isValid(): the conjunction of the valid flags of the elements
isValid(c) == \A i \in 1..Len(c.elements) : c.valid[c.elements[i]]

\* Container.hasFocus()
hasFocus(c) == c.focused

\* the keys a text input accepts: word characters, space, hyphen, slash
TextKeys ==
  {"a", "c", "d", "e", "j", "k", "n", "q", "s", "t", "u", "y", "J", "K", " ", "-", "/"}

\* value.slice(0, -1)
dropLast(value) == IF value = <<>> THEN <<>> ELSE SubSeq(value, 1, Len(value) - 1)

\* what a text input does with the key it is handed
typed(value, key) ==
  IF key = "Backspace" THEN dropLast(value)
  ELSE IF key \in TextKeys THEN Append(value, key)
  ELSE value

\* App.consumeAnyKey(callback): the first held key; the order of the held keys
\* is that of a map, which this model does not keep
firstHeld(w) == CHOOSE key \in w.App.keys : TRUE

\* Container.update(): Tab and Shift-Tab move the focus, clamped at the ends; the
\* focused element consumes the key of its type (the keys that move the selection
\* of a Select are not among the keys of this model); f is the container's name
update(w, f) ==
  LET c0 == w.App.forms[f]
      last == Len(c0.elements) - 1
      tab == "Tab" \in w.App.keys
      w1 == IF tab THEN setKeyState(w, "Tab", FALSE) ELSE w
      c1 == IF tab THEN [c0 EXCEPT !.focus = Min(@ + 1, last)] ELSE c0
      back == "ShiftTab" \in w1.App.keys
      w2 == IF back THEN setKeyState(w1, "ShiftTab", FALSE) ELSE w1
      c2 == IF back THEN [c1 EXCEPT !.focus = Max(@ - 1, 0)] ELSE c1
      name == c2.elements[c2.focus + 1]
      any == w2.App.keys # {}
      key == firstHeld(w2)
      space == " " \in w2.App.keys
      w3 == CASE ElementType(name) = "input" /\ any -> setKeyState(w2, key, FALSE)
              [] ElementType(name) = "checkbox" /\ space -> setKeyState(w2, " ", FALSE)
              [] OTHER -> w2
      c3 == CASE ElementType(name) = "input" /\ any -> [c2 EXCEPT !.value[name] = typed(@, key)]
              [] ElementType(name) = "checkbox" /\ space -> [c2 EXCEPT !.value[name] = ~@]
              [] OTHER -> c2
  IN IF c0.elements = <<>> THEN w
     ELSE [w3 EXCEPT !.App.forms[f] = [c3 EXCEPT !.focused = TRUE]]

\* AddForm.hasFocus(), AddForm.isValid(), TokenForm.value.token, UpdateStatus.Form.value.status
AddFormHasFocus(A) == hasFocus(A.forms.AddForm)
AddFormIsValid(A) == isValid(A.forms.AddForm)
TokenFormValue(A) == A.forms.TokenForm.value["token"]
EditFormStatus(A) == A.forms.EditForm.value["status"]

----------------------------------------------------------------------------
(* Actions.  An action of the live list carries its label, the page whose  *)
(* table declared it, its shortcut (the keys that trigger it), its hidden  *)
(* flag, the name of its disabled predicate and the value of `searching`   *)
(* that the predicate captured when setupActions built it.                 *)

Action(owner, label, shortcut, hidden, disabled, searching) ==
  [owner |-> owner, label |-> label, shortcut |-> shortcut, hidden |-> hidden,
   disabled |-> disabled, searching |-> searching]

\* the default shortcut taken from the second character of the label
DefaultShortcutSecond(label) ==
  CASE label = "add" -> <<"d">>
    [] label = "delete" -> <<"e">>
    [] label = "copy" -> <<"o">>
    [] label = "pull request" -> <<"u">>
    [] label = "view" -> <<"i">>
    [] label = "update" -> <<"p">>
    [] label = "edit" -> <<"d">>
    [] label = "token" -> <<"o">>
    [] label = "all" -> <<"l">>
    [] label = "selected" -> <<"e">>
    [] label = "yes" -> <<"e">>
    [] label = "no" -> <<"o">>
    [] label = "quit" -> <<"u">>
    [] label \in {"s1", "s2", "s3"} -> <<"1">>
    [] OTHER -> <<"/">>

\* an action registered without a shortcut is bound to the first character of its label
DefaultShortcut(label) ==
  CASE label = "add" -> <<"a">>
    [] label = "delete" -> <<"d">>
    [] label = "copy" -> <<"c">>
    [] label = "pull request" -> <<"p">>
    [] label = "view" -> <<"v">>
    [] label = "update" -> <<"u">>
    [] label = "edit" -> <<"e">>
    [] label = "token" -> <<"t">>
    [] label = "/" -> <<"/">>
    [] label = "all" -> <<"a">>
    [] label = "selected" -> <<"s">>
    [] label = "yes" -> <<"y">>
    [] label = "no" -> <<"n">>
    [] label = "quit" -> <<"q">>
    [] label \in {"s1", "s2", "s3"} -> <<"s">>

\* the table passed to App.setupActions, entry of one page
PageTable(page, A) ==
  LET searching == A.mode = "search"
      Act(label, shortcut, hidden, disabled) ==
        Action(page, label, shortcut, hidden, disabled, searching)
  IN CASE page = "idle" ->
          << Act("add", DefaultShortcut("add"), FALSE, "searching"),
             Act("delete", DefaultShortcut("delete"), FALSE, "searching"),
             Act("copy", DefaultShortcut("copy"), FALSE, "searching"),
             Act("open", <<"Enter">>, TRUE, "never"),
             Act("pull request", DefaultShortcut("pull request"), FALSE, "pull request"),
             Act("view", DefaultShortcut("view"), FALSE, "view"),
             Act("update", DefaultShortcut("update"), ~A.token, "idle.update"),
             Act("edit", DefaultShortcut("edit"), ~A.token, "idle.edit"),
             Act("token", DefaultShortcut("token"), A.token, "idle.token"),
             Act("back", <<"Esc">>, TRUE, "never"),
             Act("/", DefaultShortcut("/"), TRUE, "searching") >>
       [] page = "update" ->
          << Act("all", DefaultShortcut("all"), FALSE, "update.all"),
             Act("selected", DefaultShortcut("selected"), FALSE, "update.selected"),
             Act("back", <<"Esc">>, FALSE, "never") >>
       [] page = "token" ->
          << Act("set token", <<"Enter">>, FALSE, "token.set"),
             Act("back", <<"Esc">>, FALSE, "never") >>
       [] page = "delete-worktree" ->
          << Act("yes", DefaultShortcut("yes"), FALSE, "never"),
             Act("no", DefaultShortcut("no"), FALSE, "never") >>
       [] page = "delete-branch" ->
          << Act("yes", DefaultShortcut("yes"), FALSE, "never"),
             Act("no", DefaultShortcut("no"), FALSE, "never") >>
       [] page = "add" ->
          << Act("create", <<"Enter">>, FALSE, "add.create"),
             Act("back", <<"Esc">>, FALSE, "never") >>
       [] page = "edit-task" ->
          << Act("update", <<"Enter">>, FALSE, "edit-task.update"),
             Act("back", <<"Esc">>, FALSE, "never") >>

\* App.addActions({quit: ...}): the page-independent default
DefaultActions(A) ==
  << Action("default", "quit", DefaultShortcut("quit"), TRUE, "quit", A.mode = "search") >>

\* action.disabled && action.disabled(), evaluated on the App of the moment
Disabled(act, A) ==
  LET branch == getSelectedBranch(A)
  IN CASE act.disabled = "never" -> FALSE
       [] act.disabled = "always" -> TRUE
       [] act.disabled = "searching" -> act.searching
       [] act.disabled = "pull request" ->
            act.searching \/ branch = Master \/ isTask(branch)
       [] act.disabled = "view" -> act.searching \/ ~isTask(branch)
       [] act.disabled = "idle.update" -> act.searching \/ ~A.token
       [] act.disabled = "idle.edit" -> act.searching \/ ~A.token \/ ~isTask(branch)
       [] act.disabled = "idle.token" -> act.searching \/ A.token
       [] act.disabled = "update.all" -> ~A.token
       [] act.disabled = "update.selected" -> ~A.token \/ ~isTask(branch)
       [] act.disabled = "token.set" -> TokenFormValue(A) = <<>>
       [] act.disabled = "add.create" -> ~AddFormIsValid(A)
       [] act.disabled = "edit-task.update" -> EditFormStatus(A) = "none"
       [] act.disabled = "quit" -> AddFormHasFocus(A)
       [] act.disabled = "no token" -> ~A.token
       [] act.disabled = "has token" -> A.token
       [] act.disabled = "not task" -> ~isTask(branch)
       [] act.disabled = "master" -> branch = Master
       [] act.disabled = "no input" -> A.input = <<>>

\* addAction that keeps the shortcut it is given, an empty one included
addActionAsGiven(w, act) == [w EXCEPT !.App.actions = Append(@, act)]

\* App.addAction(label, opts): an action without shortcut gets the default one
addAction(w, act) ==
  [w EXCEPT !.App.actions =
     Append(@, [act EXCEPT !.shortcut = IF @ = <<>> THEN DefaultShortcut(act.label) ELSE @])]

\* the live list is rebuilt from the table entry of the current page, then the defaults
setupActions(w) ==
  [w EXCEPT !.App.actions = PageTable(w.App.page, w.App) \o DefaultActions(w.App)]

----------------------------------------------------------------------------
(* Task metadata refresh *)

NoBatch ==
  [tasks |-> <<>>, pending |-> {}, ok |-> {}, failed |-> {}, settled |-> "no",
   kind |-> "tasks", toIdle |-> FALSE]

FreeSlots(w) == {i \in DOMAIN w.batches : w.batches[i].pending = {}}

Range(seq) == {seq[i] : i \in 1..Len(seq)}

\* the synchronous part of fetchTask, up to the await of Clickup.getTask
fetchTaskStart(w, taskId) ==
  setTaskStatus(w, taskId, "info", <<"fetching task information...">>)

RECURSIVE fetchTaskStartAll(_, _)
fetchTaskStartAll(w, tasks) ==
  IF tasks = <<>> THEN w
  ELSE fetchTaskStartAll(fetchTaskStart(w, Head(tasks)), Tail(tasks))

\* the fetches of a call are in flight: they are kept in a free slot
startBatch(w, tasks, kind, toIdle) ==
  IF FreeSlots(w) = {} THEN [w EXCEPT !.overflow = TRUE]
  ELSE LET i == CHOOSE j \in FreeSlots(w) : TRUE
       IN [w EXCEPT !.batches[i] =
             [tasks |-> tasks, pending |-> Range(tasks), ok |-> {}, failed |-> {},
              settled |-> "no", kind |-> kind, toIdle |-> toIdle]]

\* tasks.join(", ")
RECURSIVE join(_)
join(tasks) ==
  IF tasks = <<>> THEN <<>>
  ELSE IF Len(tasks) = 1 THEN Head(tasks)
  ELSE Head(tasks) \o <<", ">> \o join(Tail(tasks))

\* .then(() => App.toPage("idle")) of the update page's actions
thenToIdle(w, toIdle) == IF toIdle THEN toPage(w, "idle") ELSE w

refetchTasks(w, tasks, toIdle) ==
  IF ~w.App.token THEN thenToIdle(toPage(w, "token"), toIdle)
  ELSE IF tasks = <<>> THEN thenToIdle(w, toIdle)
  ELSE LET w1 == fetchTaskStartAll(w, tasks)
           w2 == setStatus(w1, "info", <<"Fetching information from: ">> \o join(tasks), FALSE)
       IN startBatch(w2, tasks, "tasks", toIdle)

refetchAll(w, toIdle) == refetchTasks(w, taskIds(w.App), toIdle)

\* !App.tasks[taskId]?.name
refetchMissing(w) ==
  LET missing(taskId) == w.App.tasks[taskId] = NoTask
  IN refetchTasks(w, SelectSeq(taskIds(w.App), missing), FALSE)

refetchSelected(w, toIdle) ==
  IF ~w.App.token THEN thenToIdle(toPage(w, "token"), toIdle)
  ELSE LET w1 == setStatus(w, "info", <<"fetching task information...">>, FALSE)
           taskId == getSelectedBranch(w1.App)
           w2 == fetchTaskStart(w1, taskId)
       IN startBatch(w2, <<taskId>>, "selected", toIdle)

saveTasksFile(w) == [w EXCEPT !.store = w.App.tasks]

\* what follows `await Promise.all(promises)` / `await fetchTask(taskId)` when it fulfils
batchFulfilled(w, i) ==
  LET b == w.batches[i]
      w1 == saveTasksFile(w)
      w2 == IF b.kind = "selected"
              THEN setStatus(w1, "success", <<"successfully updated task">>, TRUE)
              ELSE setStatus(w1, "success", <<"Information updated">>, TRUE)
  IN thenToIdle([w2 EXCEPT !.batches[i].settled = "ok"], b.toIdle)

\* the catch block
batchRejected(w, i) ==
  LET b == w.batches[i]
      w1 == IF b.kind = "selected"
              THEN setStatus(w, "error", <<"unable updated task">>, TRUE)
              ELSE setStatus(w, "info", <<"unable to update tasks">>, TRUE)
  IN thenToIdle([w1 EXCEPT !.batches[i].settled = "fail"], b.toIdle)

\* Clickup.getTask(taskId) of batch i has returned a task
fetchTaskFulfilled(w, i, taskId) ==
  LET w1 == [w EXCEPT !.App.tasks[taskId] = NewTask]
      w2 == clearTaskStatus(w1, taskId)
      w3 == [w2 EXCEPT !.batches[i].pending = @ \ {taskId},
                       !.batches[i].ok = @ \cup {taskId}]
  IN IF w3.batches[i].pending = {} /\ w3.batches[i].settled = "no"
       THEN batchFulfilled(w3, i)
       ELSE w3

\* Clickup.getTask(taskId) of batch i has thrown e
fetchTaskRejected(w, i, taskId, e) ==
  LET w1 == setTaskStatus(w, taskId, "error", <<"clickup error: ", e>>)
      w2 == [w1 EXCEPT !.batches[i].pending = @ \ {taskId},
                       !.batches[i].failed = @ \cup {taskId}]
  IN IF w2.batches[i].settled = "no" THEN batchRejected(w2, i) ELSE w2

----------------------------------------------------------------------------
(* The delete flow *)

GitCmd(cmd, branch) == [cmd |-> cmd, branch |-> branch]

deleteConfirmation(w) ==
  LET branch == getSelectedBranch(w.App)
      w1 == toPage(w, "delete-worktree")
  IN setTaskStatus(w1, branch, "confirmation", <<"are you sure?">>)

\* deleteSelectedWorktree up to `await setTimeout(250)`
deleteSelectedWorktree(w) ==
  LET branch == getSelectedBranch(w.App)
      w1 == setTaskStatus(w, branch, "info", <<"deleting worktree...">>)
  IN IF Len(w1.wtTimers) >= MaxWtTimers THEN [w1 EXCEPT !.overflow = TRUE]
     ELSE [w1 EXCEPT !.wtTimers = Append(@, branch)]

\* deleteSelectedWorktree after the delay: execSync succeeded
worktreeRemoved(w, branch) ==
  LET w1 == [w EXCEPT !.git = @ \cup {GitCmd("worktree remove", branch)},
                      !.removed = @ \cup {branch}]
      w2 == toPage(w1, "delete-branch")
      w3 == setStatus(w2, "success", <<"worktree deleted">>, TRUE)
  IN setTaskStatus(w3, branch, "confirmation", <<"delete branch?">>)

\* deleteSelectedWorktree whose catch block falls through to the success path
worktreeRemoveFailedThrough(w, branch, e) ==
  LET w1 == [w EXCEPT !.git = @ \cup {GitCmd("worktree remove", branch)}]
      w2 == setTaskStatus(w1, branch, "error", <<"unable to delete worktree: ", e>>)
      w3 == toPage(w2, "delete-branch")
  IN setTaskStatus(w3, branch, "confirmation", <<"delete branch?">>)

\* deleteSelectedWorktree after the delay: execSync threw e
worktreeRemoveFailed(w, branch, e) ==
  LET w1 == [w EXCEPT !.git = @ \cup {GitCmd("worktree remove", branch)}]
      w2 == setTaskStatus(w1, branch, "error", <<"unable to delete worktree: ", e>>)
  IN toPage(w2, "idle")

removeSelectedBranchFromList(w) ==
  LET branch == getSelectedBranch(w.App)
      keep(path) == ~endsWith(path, branch)
      w1 == setPaths(w, SelectSeq(w.App.paths, keep))
  IN selectPrevious(w1)

\* deleteSelectedBranch up to `await Promise.all(promises)`: both commands are started
deleteSelectedBranch(w) ==
  LET branch == getSelectedBranch(w.App)
      w1 == setTaskStatus(w, branch, "info", <<"deleting branch...">>)
      w2 == [w1 EXCEPT !.git = @ \cup {GitCmd("branch -D", branch), GitCmd("push origin :", branch)}]
  IN IF Len(w2.brDel) >= MaxBrDel THEN [w2 EXCEPT !.overflow = TRUE]
     ELSE [w2 EXCEPT !.brDel = Append(@, [branch |-> branch, local |-> "pending",
                                           remote |-> "pending", settled |-> FALSE])]

\* what follows `await Promise.all(promises)` in deleteSelectedBranch, then the
\* .then and .finally of the delete-branch page's yes action
branchDeleteSettled(w, i, ok) ==
  LET branch == w.brDel[i].branch
      w1 == IF ok
              THEN setStatus(w, "success", <<"branch [">> \o branch \o <<"] successfuly deleted">>, TRUE)
              ELSE setStatus(w, "error", <<"unable to delete branch ">> \o branch, FALSE)
      w2 == removeSelectedBranchFromList(w1)
      w3 == toPage(w2, "idle")
  IN [w3 EXCEPT !.brDel[i].settled = TRUE]

RemoveAt(seq, i) == SubSeq(seq, 1, i - 1) \o SubSeq(seq, i + 1, Len(seq))

\* a flow whose two commands have called back is over
dropFinished(w, i) ==
  IF w.brDel[i].local # "pending" /\ w.brDel[i].remote # "pending"
    THEN [w EXCEPT !.brDel = RemoveAt(@, i)]
    ELSE w

\* deleteSelectedBranch whose promises are never rejected: after a failing command
\* the awaited Promise.all stays pending
branchExecCallbackNoReject(w, i, which, ok, e) ==
  LET text == IF which = "local" THEN "unable to delete local branch: "
                                 ELSE "unable to delete remote branch: "
      w1 == IF ok THEN w ELSE setStatus(w, "error", <<text, e>>, FALSE)
      w2 == IF which = "local"
              THEN [w1 EXCEPT !.brDel[i].local = IF ok THEN "ok" ELSE "fail"]
              ELSE [w1 EXCEPT !.brDel[i].remote = IF ok THEN "ok" ELSE "fail"]
      f == w2.brDel[i]
      w3 == IF ~f.settled /\ f.local = "ok" /\ f.remote = "ok"
              THEN branchDeleteSettled(w2, i, TRUE)
              ELSE w2
  IN dropFinished(w3, i)

\* the callback of exec(`git branch -D`) (which = "local") or exec(`git push origin :`) ("remote")
branchExecCallback(w, i, which, ok, e) ==
  LET text == IF which = "local" THEN "unable to delete local branch: "
                                 ELSE "unable to delete remote branch: "
      w1 == IF ok THEN w ELSE setStatus(w, "error", <<text, e>>, FALSE)
      w2 == IF which = "local"
              THEN [w1 EXCEPT !.brDel[i].local = IF ok THEN "ok" ELSE "fail"]
              ELSE [w1 EXCEPT !.brDel[i].remote = IF ok THEN "ok" ELSE "fail"]
      f == w2.brDel[i]
      w3 == IF f.settled THEN w2
            ELSE IF ~ok THEN branchDeleteSettled(w2, i, FALSE)
            ELSE IF f.local = "ok" /\ f.remote = "ok" THEN branchDeleteSettled(w2, i, TRUE)
            ELSE w2
  IN dropFinished(w3, i)

quit(w) == [w EXCEPT !.running = FALSE]

----------------------------------------------------------------------------
(* The callbacks of the action tables *)

\* idle.back: in search mode SearchForm.clear() and the mode goes back to idle
idleBack(w) ==
  IF w.App.mode = "search"
    THEN [w EXCEPT !.App.forms.SearchForm = clear(@), !.App.mode = "idle"]
    ELSE w

deleteWorktreeNo(w) == toPage(clearAllTaskStatus(w), "idle")

deleteBranchNo(w) ==
  LET branch == getSelectedBranch(w.App)
      w1 == removeSelectedBranchFromList(w)
      w2 == setStatus(w1, "success", <<"worktree [">> \o branch \o <<"] successfully deleted">>, TRUE)
      w3 == clearAllTaskStatus(w2)
  IN toPage(w3, "idle")

\* TokenForm.reset(); App.previousPage()
tokenBack(w) == previousPage([w EXCEPT !.App.forms.TokenForm = reset(@)])

\* AddForm.reset(); App.toPage("idle")
addBack(w) == toPage([w EXCEPT !.App.forms.AddForm = reset(@)], "idle")

\* App.paths.indexOf(path), zero-based; -1 when the path is not in the list
indexOf(paths, path) ==
  LET is == {i \in 1..Len(paths) : paths[i] = path}
  IN IF is = {} THEN -1 ELSE (CHOOSE i \in is : \A j \in is : i <= j) - 1

\* idle.open: in search mode the selected entry of the filtered list is looked up
\* in the path list (an index outside the filtered list reads undefined, which
\* indexOf does not find), the search is cleared and the mode goes back to idle;
\* otherwise enterProject() notes the selected path and quits
idleOpen(w) ==
  IF w.App.mode = "search"
    THEN LET A == w.App
             inside == A.selected >= 0 /\ A.selected < Len(A.filteredPaths)
         IN [w EXCEPT !.App.forms.SearchForm = clear(@),
                      !.App.selected = IF inside THEN indexOf(A.paths, A.filteredPaths[A.selected + 1])
                                       ELSE -1,
                      !.App.filteredPaths = A.paths,
                      !.App.mode = "idle"]
    ELSE quit(w)

\* the commands add.create runs with execSync, in order
AddCommands == <<"rev-parse", "fetch", "worktree add">>

\* dirname(path): what precedes the last separator
dirname(path) ==
  LET seps == {i \in 1..Len(path) : path[i] = "/"}
      last == IF seps = {} THEN 1 ELSE CHOOSE i \in seps : \A j \in seps : j <= i
  IN SubSeq(path, 1, last - 1)

\* the add page's create callback; w.throws is the execSync call that throws, 0 for
\* none; dirname(App.paths[0]) throws when the list is empty; the tasks whose
\* metadata the model keeps are those of BranchU
addCreate(w) ==
  LET c == w.App.forms.AddForm
      branch == c.value["branch"]
      path == IF c.value["path"] # <<>> THEN c.value["path"] ELSE branch
      n == IF w.throws = 0 THEN Len(AddCommands) ELSE w.throws
      w1 == setStatus(w, "info", <<"adding worktree ">> \o branch \o <<"...">>, FALSE)
      w2 == [w1 EXCEPT !.git = @ \cup {GitCmd(AddCommands[i], branch) : i \in 1..n}]
      w3 == setStatus(w2, "success", <<"worktree ">> \o branch \o <<" added">>, TRUE)
      w4 == setPaths(w3, Append(w3.App.paths, dirname(w3.App.paths[1]) \o <<"/">> \o path))
      w5 == IF ~isTask(path) THEN w4
            ELSE IF w4.App.token /\ path \notin BranchU THEN [w4 EXCEPT !.overflow = TRUE]
            ELSE refetchTasks(w4, <<path>>, FALSE)
      w6 == [w5 EXCEPT !.App.forms.AddForm = reset(@)]
      caught(v) == toPage(setStatus(v, "error", <<"[worktree-add]: ", "E1">>, FALSE), "idle")
  IN IF w.throws # 0 THEN caught(w2)
     ELSE IF w.App.paths = <<>> THEN caught(w3)
     ELSE toPage(w6, "idle")

\* UpdateStatus.Form.reset(); App.toPage("idle")
editTaskBack(w) == toPage([w EXCEPT !.App.forms.EditForm = reset(@)], "idle")

Callback(act, w) ==
  LET id == <<act.owner, act.label>>
  IN CASE id = <<"idle", "add">> -> toPage(w, "add")
       [] id = <<"idle", "delete">> -> deleteConfirmation(w)
       [] id = <<"idle", "open">> -> idleOpen(w)
       [] id = <<"idle", "update">> -> toPage(w, "update")
       [] id = <<"idle", "edit">> -> toPage(w, "edit-task")
       [] id = <<"idle", "token">> -> toPage(w, "token")
       [] id = <<"idle", "back">> -> idleBack(w)
       [] id = <<"idle", "/">> -> [w EXCEPT !.App.mode = "search"]
       [] id = <<"update", "all">> -> refetchAll(w, TRUE)
       [] id = <<"update", "selected">> -> refetchSelected(w, TRUE)
       [] id = <<"update", "back">> -> previousPage(w)
       [] id = <<"token", "back">> -> tokenBack(w)
       [] id = <<"delete-worktree", "yes">> -> deleteSelectedWorktree(w)
       [] id = <<"delete-worktree", "no">> -> deleteWorktreeNo(w)
       [] id = <<"delete-branch", "yes">> -> deleteSelectedBranch(w)
       [] id = <<"delete-branch", "no">> -> deleteBranchNo(w)
       [] id = <<"add", "create">> -> addCreate(w)
       [] id = <<"add", "back">> -> addBack(w)
       [] id = <<"edit-task", "back">> -> editTaskBack(w)
       [] id = <<"default", "quit">> -> quit(w)
       [] act.owner = "stub" -> w

----------------------------------------------------------------------------
(* The input handler *)

\* action.shortcut.includes(key)
includes(shortcut, key) == \E i \in 1..Len(shortcut) : shortcut[i] = key

\* the dispatch loop without its `return`: the last enabled match wins
RECURSIVE DispatchLast(_, _, _, _)
DispatchLast(actions, i, key, A) ==
  IF i > Len(actions) THEN <<>>
  ELSE LET rest == DispatchLast(actions, i + 1, key, A)
       IN IF rest # <<>> THEN rest
          ELSE IF ~Disabled(actions[i], A) /\ includes(actions[i].shortcut, key) THEN <<i>>
          ELSE <<>>

\* the dispatch loop without its `continue` on a disabled action
RECURSIVE DispatchDisabled(_, _, _, _)
DispatchDisabled(actions, i, key, A) ==
  IF i > Len(actions) THEN <<>>
  ELSE IF includes(actions[i].shortcut, key) THEN <<i>>
  ELSE DispatchDisabled(actions, i + 1, key, A)

\* the dispatch loop skipping the actions the header does not show
RECURSIVE DispatchVisible(_, _, _, _)
DispatchVisible(actions, i, key, A) ==
  IF i > Len(actions) THEN <<>>
  ELSE IF Disabled(actions[i], A) \/ actions[i].hidden THEN DispatchVisible(actions, i + 1, key, A)
  ELSE IF includes(actions[i].shortcut, key) THEN <<i>>
  ELSE DispatchVisible(actions, i + 1, key, A)

\* the dispatch loop: the indices of the actions whose callback is invoked
RECURSIVE DispatchFrom(_, _, _, _)
DispatchFrom(actions, i, key, A) ==
  IF i > Len(actions) THEN <<>>
  ELSE IF Disabled(actions[i], A) THEN DispatchFrom(actions, i + 1, key, A)
  ELSE IF includes(actions[i].shortcut, key) THEN <<i>>
  ELSE DispatchFrom(actions, i + 1, key, A)

Dispatch(actions, key, A) == DispatchFrom(actions, 1, key, A)

\* consumeKey that leaves the key held: level-triggered instead of edge-triggered
consumeKeyHeld(w, key, act) ==
  IF key \in w.App.keys
    THEN Callback(act, [w EXCEPT !.calls = Append(@, <<act.owner, act.label>>)])
    ELSE w

\* App.consumeKey(key, callback): a held key is released and the callback invoked
consumeKey(w, key, act) ==
  IF key \in w.App.keys
    THEN Callback(act, [setKeyState(w, key, FALSE) EXCEPT
                          !.calls = Append(@, <<act.owner, act.label>>)])
    ELSE w

RECURSIVE RunCallbacks(_, _, _, _)
RunCallbacks(actions, hits, key, w) ==
  IF hits = <<>> THEN w
  ELSE RunCallbacks(actions, Tail(hits), key, consumeKey(w, key, actions[Head(hits)]))

\* setTimeout(100).then(() => App.setKeyState(key, false)) is started
releaseLater(w, key) ==
  IF Len(w.keyTimers) >= MaxKeyTimers THEN [w EXCEPT !.overflow = TRUE]
  ELSE [w EXCEPT !.keyTimers = Append(@, key)]

\* the immediate key actions, on every page and in every mode
navigateAlways(w, key) ==
  CASE key \in {"j", "ArrowDown"} -> selectNext(w)
    [] key \in {"k", "ArrowUp"} -> selectPrevious(w)
    [] key = "c" /\ w.App.status # NoStatus -> clearStatus(w)
    [] key \in {"K", "ShiftArrowUp"} -> selectFirst(w)
    [] key \in {"J", "ShiftArrowDown"} -> selectLast(w)
    [] OTHER -> w

\* the immediate key actions of the browsing pages
navigate(w, key) ==
  IF w.App.page \in {"update", "idle"} /\ w.App.mode # "search"
    THEN CASE key \in {"j", "ArrowDown"} -> selectNext(w)
           [] key \in {"k", "ArrowUp"} -> selectPrevious(w)
           [] key = "c" /\ w.App.status # NoStatus -> clearStatus(w)
           [] key \in {"K", "ShiftArrowUp"} -> selectFirst(w)
           [] key \in {"J", "ShiftArrowDown"} -> selectLast(w)
           [] OTHER -> w
    ELSE w

\* what the execSync calls of the callbacks invoked can do: none throws (0), or
\* the n-th call of the callback does; the callback with such calls is add.create
Throws(actions, hits) ==
  IF \E i \in 1..Len(hits) :
       <<actions[hits[i]].owner, actions[hits[i]].label>> = <<"add", "create">>
    THEN 0..Len(AddCommands)
    ELSE {0}

OnData(key) ==
  /\ running
  /\ nkeys < MaxKeys
  /\ \E throws \in Throws(App.actions, Dispatch(App.actions, key, navigate(World, key).App)) :
     LET w0 == setKeyState([World EXCEPT !.throws = throws], key, TRUE)
         w1 == navigate(w0, key)
         hits == Dispatch(w1.App.actions, key, w1.App)
         w2 == IF hits = <<>> THEN releaseLater(w1, key)
               ELSE RunCallbacks(w1.App.actions, hits, key, w1)
     IN /\ ~w2.overflow
        /\ w2.statusTimers <= MaxTimers
        /\ Apply(w2)
        /\ nkeys' = nkeys + 1

----------------------------------------------------------------------------
(* The render loop *)

\* the token check of loop() without its first branch: a missing token is not reported
tokenStatusSilent(w) ==
  IF w.App.token /\ includesToken(w.App.status.message) THEN clearStatus(w) ELSE w

\* the token check of loop()
tokenStatus(w) ==
  IF ~w.App.token THEN setStatus(w, "error", <<"Missing CLICKUP_TOKEN">>, FALSE)
  ELSE IF includesToken(w.App.status.message) THEN clearStatus(w)
  ELSE w

\* runOnce(id, cb): cb runs unless id is held as running; cbw is the world cb
\* leaves when it runs on w
runOnce(w, id, cbw) == IF id \in w._running THEN w ELSE cbw

\* the resolve function runOnce hands to cb
resolve(w, id) == [w EXCEPT !._running = @ \ {id}]

\* task.status.id: the tasks of the model are all in one status
TaskStatusId == "open"

\* the .then and .finally of the status-list load
statusesLoaded(w) ==
  LET w1 == clearStatus(w)
      w2 == [w1 EXCEPT !.App.forms.options = TRUE,
                       !.App.forms.EditForm.initialValue["status"] = TaskStatusId]
  IN resolve(w2, "load-statuses")

\* the .catch and .finally of the status-list load
statusesFailed(w, e) ==
  LET w1 == setStatus(w, "error", <<e>>, FALSE)
      w2 == [w1 EXCEPT !.calls = Append(@, <<"load-statuses", "catch">>)]
  IN resolve(w2, "load-statuses")

\* yaml.stringify(value): the text written to a file; a status cache is the set
\* of the list ids it has statuses for
stringify(value) == [kind |-> "text", of |-> value]

\* StatusCacheSchema.safeParse(content).success: the content is an object whose
\* values are lists of statuses; a string is not
safeParse(content) == content.kind = "object"

saveStatuses(w, cache) == [w EXCEPT !.statuses = stringify(cache)]

\* loadStatuses(): the content read from the file is validated as it is; the
\* result is the world it leaves and the cache it returns
loadStatuses(w) ==
  LET content == w.statuses
  IN IF safeParse(content) THEN [w |-> w, local |-> content.of]
     ELSE [w |-> saveStatuses(w, {}), local |-> {}]

\* loadOrFetchStatuses(listId) with its callbacks: a cached list is returned at
\* once, otherwise Clickup.getStatuses is called and the result is awaited
loadOrFetchStatuses(w, listId) ==
  LET r == loadStatuses(w)
  IN IF listId \in r.local THEN statusesLoaded(r.w)
     ELSE IF Len(r.w.loads) >= MaxLoads THEN [r.w EXCEPT !.overflow = TRUE]
     ELSE [r.w EXCEPT !.loads = Append(@, r.local)]

\* the callback renderEditTask passes to runOnce
loadStatusesOnce(w) == loadOrFetchStatuses(w, ListId)

\* renderEditTask() without the early return for a task without metadata
renderEditTaskAnyway(w) ==
  LET w1 == IF ~w.App.forms.options
              THEN runOnce(w, "load-statuses", loadStatusesOnce(w))
              ELSE w
  IN update([w1 EXCEPT !.App.forms.EditForm = add(add(@, "status"), "done")],
            "EditForm")

renderEditTask(w) ==
  IF w.App.tasks[getSelectedBranch(w.App)] = NoTask THEN toPage(w, "idle")
  ELSE LET w1 == IF ~w.App.forms.options
                   THEN runOnce(w, "load-statuses", loadStatusesOnce(w))
                   ELSE w
       IN update([w1 EXCEPT !.App.forms.EditForm = add(add(@, "status"), "done")],
                 "EditForm")

\* TokenForm.add(TokenInput).update().render()
renderToken(w) ==
  update([w EXCEPT !.App.forms.TokenForm = add(@, "token")], "TokenForm")

\* the paths whose last component is the branch
worktreesOf(A, branch) == {i \in 1..Len(A.paths) : getTaskFromPath(A.paths[i]) = branch}

\* renderAdd() that leaves the valid flag of the branch input alone
renderAddUnchecked(w) ==
  update([w EXCEPT !.App.forms.AddForm =
            add(add(add(add(@, "branch"), "create"), "path"), "commit")], "AddForm")

\* renderAdd(): the elements are added, the form is updated, and the branch input
\* is invalid when a worktree of the list has the branch typed
renderAdd(w) ==
  LET w1 == [w EXCEPT !.App.forms.AddForm =
               add(add(add(add(@, "branch"), "create"), "path"), "commit")]
      w2 == update(w1, "AddForm")
  IN IF worktreesOf(w2.App, w2.App.forms.AddForm.value["branch"]) # {}
       THEN setStatus([w2 EXCEPT !.App.forms.AddForm.valid["branch"] = FALSE],
                      "error", <<"worktree already exists">>, FALSE)
       ELSE [w2 EXCEPT !.App.forms.AddForm.valid["branch"] = TRUE]

\* render(): what the page-specific renderers do to the state
\* text.includes(search)
includesText(text, search) ==
  \E i \in 0..(Len(text) - Len(search)) : SubSeq(text, i + 1, i + Len(search)) = search

\* renderBranches(): the list shown is the path list, or with a search text the
\* paths whose task contains it, and then the first entry is selected
renderBranches(w) ==
  LET search == w.App.forms.SearchForm.value["search"]
      matches(path) == includesText(getTaskFromPath(path), search)
  IN IF search # <<>>
       THEN [w EXCEPT !.App.selected = 0,
                      !.App.filteredPaths = SelectSeq(w.App.paths, matches)]
       ELSE [w EXCEPT !.App.filteredPaths = w.App.paths]

\* renderStatus(): in search mode the search input is registered and updated
renderStatus(w) ==
  IF w.App.mode = "search"
    THEN update([w EXCEPT !.App.forms.SearchForm = add(@, "search")], "SearchForm")
    ELSE w

render(w) ==
  renderStatus(CASE w.App.page = "token" -> renderToken(w)
                 [] w.App.page = "add" -> renderAdd(w)
                 [] w.App.page = "edit-task" -> renderEditTask(w)
                 [] OTHER -> renderBranches(w))

loop(w) == render(tokenStatus(setupActions(updateKeyStates(w))))

Tick ==
  /\ running
  /\ LET w == loop(World)
     IN /\ ~w.overflow
        /\ Apply(w)
        /\ UNCHANGED nkeys

----------------------------------------------------------------------------
(* Timers and completions *)

\* setTimeout(clearStatus, timeout) fires
StatusTimer ==
  /\ running
  /\ statusTimers > 0
  /\ Apply([clearStatus(World) EXCEPT !.statusTimers = @ - 1])
  /\ UNCHANGED nkeys

\* a key-release timer fires
KeyRelease ==
  /\ running
  /\ \E i \in 1..Len(keyTimers) :
       Apply(setKeyState([World EXCEPT !.keyTimers = RemoveAt(@, i)], keyTimers[i], FALSE))
  /\ UNCHANGED nkeys

\* the 250 ms of deleteSelectedWorktree are over and `git worktree remove` runs;
\* it can succeed only for a worktree that exists
WorktreeTimer ==
  /\ running
  /\ \E i \in 1..Len(wtTimers) :
       LET branch == wtTimers[i]
           w == [World EXCEPT !.wtTimers = RemoveAt(@, i)]
       IN \/ /\ branch \in BranchU \ removed
             /\ worktreeRemoved(w, branch).statusTimers <= MaxTimers
             /\ Apply(worktreeRemoved(w, branch))
             /\ UNCHANGED nkeys
          \/ \E e \in Errors :
               /\ Apply(worktreeRemoveFailed(w, branch, e))
               /\ UNCHANGED nkeys

BranchExec ==
  /\ running
  /\ \E i \in 1..Len(brDel), which \in {"local", "remote"}, ok \in BOOLEAN, e \in Errors :
       /\ IF which = "local" THEN brDel[i].local = "pending" ELSE brDel[i].remote = "pending"
       /\ ok => e = "E1"
       /\ LET w == branchExecCallback(World, i, which, ok, e)
          IN /\ w.statusTimers <= MaxTimers
             /\ Apply(w)
             /\ UNCHANGED nkeys

FetchDone ==
  /\ running
  /\ \E i \in DOMAIN batches : \E taskId \in batches[i].pending :
       \/ LET w == fetchTaskFulfilled(World, i, taskId)
          IN /\ w.statusTimers <= MaxTimers
             /\ Apply(w)
             /\ UNCHANGED nkeys
       \/ \E e \in Errors :
            LET w == fetchTaskRejected(World, i, taskId, e)
            IN /\ w.statusTimers <= MaxTimers
               /\ Apply(w)
               /\ UNCHANGED nkeys

\* a Clickup.getStatuses request returns: the awaiting loadOrFetchStatuses saves the
\* list and fulfils, or rejects with the error of the request
StatusLoad ==
  /\ running
  /\ \E i \in 1..Len(loads) :
       \/ LET w0 == saveStatuses([World EXCEPT !.loads = RemoveAt(@, i)],
                                 loads[i] \cup {ListId})
              w == statusesLoaded(w0)
          IN Apply(w) /\ UNCHANGED nkeys
       \/ \E e \in Errors :
            LET w == statusesFailed([World EXCEPT !.loads = RemoveAt(@, i)], e)
            IN Apply(w) /\ UNCHANGED nkeys

----------------------------------------------------------------------------
(* Start: main() has read the token and the task store, listed the         *)
(* worktrees, selected the current branch, run loop() once and, with a     *)
(* token, started the fetch of the tasks without metadata.                 *)

InitApp(paths, selected, token, tasks) ==
  [page |-> "idle", previousPage |-> "none", mode |-> "idle", selected |-> selected,
   paths |-> paths, filteredPaths |-> paths, token |-> token, status |-> NoStatus,
   taskStatus |-> [b \in BranchU \cup {NoBranch} |-> NoStatus],
   tasks |-> tasks, actions |-> <<>>, keys |-> {}, input |-> <<>>,
   forms |-> [TokenForm |-> Container(TokenElements), AddForm |-> Container(AddElements),
              EditForm |-> Container(EditElements),
              SearchForm |-> Container(SearchElements), options |-> FALSE]]

InitWorld(A, cache) ==
  [App |-> A, wtTimers |-> <<>>, brDel |-> <<>>,
   batches |-> [i \in 1..MaxBatches |-> NoBatch],
   statusTimers |-> 0, keyTimers |-> <<>>, git |-> {}, removed |-> {}, store |-> A.tasks,
   running |-> TRUE, calls |-> <<>>, _running |-> {}, loads |-> <<>>,
   statuses |-> stringify(cache),
   overflow |-> FALSE, throws |-> 0]

main(A, cache) ==
  LET w == loop(InitWorld(A, cache))
  IN IF A.token THEN refetchMissing(w) ELSE w

StoredTasks ==
  {t \in [BranchU \cup {NoBranch} -> {NoTask, OldTask}] :
     \A b \in BranchU \cup {NoBranch} : ~isTask(b) => t[b] = NoTask}

Init ==
  \E paths \in InitPaths, token \in BOOLEAN, tasks \in StoredTasks :
    \E selected \in 0..(Len(paths) - 1), cache \in SUBSET {ListId} :
      LET w == main(InitApp(paths, selected, token, tasks), cache)
      IN /\ App = w.App
         /\ wtTimers = w.wtTimers
         /\ brDel = w.brDel
         /\ batches = w.batches
         /\ statusTimers = w.statusTimers
         /\ keyTimers = w.keyTimers
         /\ git = w.git
         /\ removed = w.removed
         /\ store = w.store
         /\ running = w.running
         /\ calls = w.calls
         /\ _running = w._running
         /\ loads = w.loads
         /\ statuses = w.statuses
         /\ nkeys = 0

KeyEvent(K) == \E key \in K : OnData(key)

Next ==
  \/ KeyEvent(Keys)
  \/ Tick
  \/ KeyRelease
  \/ StatusTimer
  \/ WorktreeTimer
  \/ BranchExec
  \/ FetchDone
  \/ StatusLoad

Spec == Init /\ [][Next]_vars

----------------------------------------------------------------------------
(* The delete flow alone: every task has cached metadata, so that no fetch *)
(* is in flight, and the keys are those of the browsing and delete pages.  *)

DeleteKeys == {"d", "y", "n", "j", "k", "q"}

InitDelete ==
  /\ Init
  /\ App.token
  /\ statuses = stringify({})
  /\ \A b \in BranchU : isTask(b) => App.tasks[b] = OldTask

NextDelete ==
  \/ KeyEvent(DeleteKeys)
  \/ Tick
  \/ KeyRelease
  \/ StatusTimer
  \/ WorktreeTimer
  \/ BranchExec

SpecDelete == InitDelete /\ [][NextDelete]_vars

----------------------------------------------------------------------------
(* The dispatch loop alone: stub actions are registered with App.addAction *)
(* on an App whose live list is still empty, and keys arrive.              *)

StubLabel(n) == CASE n = 1 -> "s1" [] n = 2 -> "s2" [] OTHER -> "s3"

\* <<>>: registered without a shortcut
StubShortcuts == {<<>>, <<"y">>, <<"n">>, <<"y", "n">>}

DispatchKeys == {"y", "n", "s"}

AddStub ==
  /\ running
  /\ Len(App.actions) < MaxActions
  /\ \E shortcut \in StubShortcuts, hidden \in BOOLEAN, disabled \in {"never", "always"} :
       Apply(addAction(World, Action("stub", StubLabel(Len(App.actions) + 1), shortcut,
                                     hidden, disabled, FALSE)))
  /\ UNCHANGED nkeys

InitDispatch ==
  LET w == InitWorld(InitApp(<<PathOf(TaskBA), PathOf(TaskA)>>, 0, TRUE,
                             [b \in BranchU \cup {NoBranch} |-> IF isTask(b) THEN OldTask ELSE NoTask]),
                     {})
  IN /\ App = w.App
     /\ wtTimers = w.wtTimers
     /\ brDel = w.brDel
     /\ batches = w.batches
     /\ statusTimers = w.statusTimers
     /\ keyTimers = w.keyTimers
     /\ git = w.git
     /\ removed = w.removed
     /\ store = w.store
     /\ running = w.running
     /\ calls = w.calls
     /\ _running = w._running
     /\ loads = w.loads
     /\ statuses = w.statuses
     /\ nkeys = 0

NextDispatch ==
  \/ AddStub
  \/ (nkeys < MaxStubKeys /\ KeyEvent(DispatchKeys))
  \/ KeyRelease

SpecDispatch == InitDispatch /\ [][NextDispatch]_vars

----------------------------------------------------------------------------
(* Dispatch claims *)

\* action i of the live list is enabled and its shortcut contains the key
Matches(i, key) ==
  /\ ~Disabled(App.actions[i], App)
  /\ \E n \in 1..Len(App.actions[i].shortcut) : App.actions[i].shortcut[n] = key

ActionId(i) == <<App.actions[i].owner, App.actions[i].label>>

Invoked(id) == \E n \in 1..Len(calls') : calls'[n] = id

\* C1: a key invokes the callback of at most one action of the live list, and when
\* two enabled actions both have the key in their shortcut, the one registered
\* earlier is invoked and the later one is not.
C1_AtMostOneEarlierWins ==
  [][\A key \in DispatchKeys : OnData(key) =>
       /\ Len(calls') <= 1
       /\ \A i, j \in 1..Len(App.actions) :
            (i < j /\ Matches(i, key) /\ Matches(j, key)) =>
              /\ ~Invoked(ActionId(j))
              /\ (\A h \in 1..(i - 1) : ~Matches(h, key)) => calls' = <<ActionId(i)>>]_vars

\* two enabled stubs share "y" and the key invoked the first of them
C1_Witness ==
  /\ Len(App.actions) = 2
  /\ \A i \in 1..2 : App.actions[i].shortcut = <<"y">> /\ App.actions[i].disabled = "never"
  /\ calls = <<<<"stub", "s1">>>>
  /\ "y" \notin App.keys

\* C2: a disabled action is never invoked; the key goes to the first enabled action
\* whose shortcut contains it, and without such an action no callback runs.
C2_DisabledFallThrough ==
  [][\A key \in DispatchKeys : OnData(key) =>
       /\ \A i \in 1..Len(App.actions) :
            Disabled(App.actions[i], App) => ~Invoked(ActionId(i))
       /\ \A i \in 1..Len(App.actions) :
            (Matches(i, key) /\ \A h \in 1..(i - 1) : ~Matches(h, key)) =>
              calls' = <<ActionId(i)>>
       /\ (\A i \in 1..Len(App.actions) : ~Matches(i, key)) => calls' = <<>>]_vars

\* a disabled stub on "y" is followed by an enabled one, which the key invoked
C2_Witness ==
  /\ Len(App.actions) = 2
  /\ App.actions[1].shortcut = <<"y">> /\ App.actions[1].disabled = "always"
  /\ App.actions[2].shortcut = <<"y">> /\ App.actions[2].disabled = "never"
  /\ calls = <<<<"stub", "s2">>>>

\* the live list with every hidden flag cleared
Unhide(actions) == [i \in 1..Len(actions) |-> [actions[i] EXCEPT !.hidden = FALSE]]

\* C3: the hidden flag has no effect on dispatch: a key invokes the same action
\* as it would if every action of the list were visible, so a hidden enabled
\* action that is the first match is invoked.
C3_HiddenNoEffect ==
  [][\A key \in DispatchKeys : OnData(key) =>
       LET hits == Dispatch(Unhide(App.actions), key, App)
       IN /\ calls' = [n \in 1..Len(hits) |-> ActionId(hits[n])]
          /\ \A i \in 1..Len(App.actions) :
               (App.actions[i].hidden /\ Matches(i, key) /\ \A h \in 1..(i - 1) : ~Matches(h, key))
                 => Invoked(ActionId(i))]_vars

\* a hidden enabled stub precedes a visible one on the same key and was invoked
C3_Witness ==
  /\ Len(App.actions) = 2
  /\ App.actions[1].hidden /\ App.actions[1].disabled = "never"
  /\ ~App.actions[2].hidden /\ App.actions[2].disabled = "never"
  /\ App.actions[1].shortcut = <<"n">> /\ App.actions[2].shortcut = <<"n">>
  /\ calls = <<<<"stub", "s1">>>>

----------------------------------------------------------------------------
(* The delete flow with the scheduling of the event loop: a child process   *)
(* that was started calls back.                                              *)

FlowKeys == {"d", "y", "n"}

NextDeleteFair ==
  \/ (nkeys < MaxFlowKeys /\ KeyEvent(FlowKeys))
  \/ Tick
  \/ KeyRelease
  \/ StatusTimer
  \/ WorktreeTimer
  \/ BranchExec

SpecDeleteFair == InitDelete /\ [][NextDeleteFair]_vars /\ WF_vars(BranchExec)

----------------------------------------------------------------------------
(* Delete-flow claims *)

\* C4: every callback a key invokes belongs to the page that is current when the
\* key arrives, or is the page-independent default, whatever ticks and keys came
\* before.
C4_CallbackOfCurrentPage ==
  [][\A key \in DeleteKeys : OnData(key) =>
       \A n \in 1..Len(calls') : calls'[n][1] \in {App.page, "default"}]_vars

\* C5: on the idle page outside search mode the delete key leads to the
\* delete-worktree page with the confirmation "are you sure?" on the selected
\* branch; "n" on that page then clears the status and leads back to idle with
\* the path list unchanged and no git command run.
C5_DeleteThenNo ==
  [][/\ (App.page = "idle" /\ App.mode # "search" /\ OnData("d")) =>
          /\ App'.page = "delete-worktree"
          /\ App'.taskStatus[getSelectedBranch(App)] = Status("confirmation", <<"are you sure?">>)
     /\ (/\ App.page = "delete-worktree"
         /\ App.taskStatus[getSelectedBranch(App)] = Status("confirmation", <<"are you sure?">>)
         /\ OnData("n")) =>
          /\ App'.taskStatus[getSelectedBranch(App)] = NoStatus
          /\ App'.page = "idle"
          /\ App'.paths = App.paths
          /\ git' = {}
          /\ wtTimers' = wtTimers /\ brDel' = brDel]_vars

\* C6: "y" on the delete-worktree page starts the removal of the selected branch's
\* worktree, and when `git worktree remove` of a branch succeeds the page becomes
\* delete-branch and that branch's status the confirmation "delete branch?".
C6_YesRemovesWorktree ==
  [][/\ (App.page = "delete-worktree" /\ OnData("y")) =>
          wtTimers' = Append(wtTimers, getSelectedBranch(App))
     /\ \A b \in BranchU :
          (b \in removed' /\ b \notin removed) =>
            /\ [cmd |-> "worktree remove", branch |-> b] \in git'
            /\ App'.page = "delete-branch"
            /\ App'.taskStatus[b] = Status("confirmation", <<"delete branch?">>)]_vars

\* the step ends a delete-branch step: the "no" callback of the delete-branch page
\* ran, or the awaited branch deletions of a "yes" settled
EndsDeleteBranch ==
  \/ calls' = <<<<"delete-branch", "no">>>>
  \/ /\ nkeys' = nkeys
     /\ \E i \in 1..Len(brDel) :
          /\ ~brDel[i].settled
          /\ Len(brDel') < Len(brDel) \/ brDel'[i].settled

\* C7: however the delete-branch step ends, the page is idle afterwards and no
\* path of a branch whose worktree was removed is left in the path list.
C7_RemovedPathLeavesList ==
  [][EndsDeleteBranch =>
       /\ App'.page = "idle"
       /\ \A b \in removed : \A n \in 1..Len(App'.paths) :
            getTaskFromPath(App'.paths[n]) # b]_vars

\* C8: a branch deletion that was started leads to the idle page (or the process
\* has exited), also when a command fails.
C8_BranchDeleteEndsIdle ==
  (\E i \in 1..Len(brDel) : ~brDel[i].settled) ~> (~running \/ App.page = "idle")

\* a branch deletion with a failed command has settled and the page is idle
C8_Witness ==
  /\ Len(brDel) = 1
  /\ brDel[1].settled
  /\ "fail" \in {brDel[1].local, brDel[1].remote}
  /\ App.page = "idle"
  /\ App.status.type = "error"

\* C9: when `git worktree remove` of a branch fails, the branch's status is an
\* error with the failure text, the page is idle and not delete-branch, the path
\* list is unchanged and no branch deletion is started.
C9_WorktreeFailure ==
  [][\A b \in BranchU \cup {NoBranch} :
       ([cmd |-> "worktree remove", branch |-> b] \in git' /\ removed' = removed) =>
         /\ \E e \in Errors :
              App'.taskStatus[b] = Status("error", <<"unable to delete worktree: ", e>>)
         /\ App'.page = "idle"
         /\ App'.paths = App.paths
         /\ brDel' = brDel
         /\ \A c \in git' : c.cmd = "worktree remove"]_vars

\* the removal of an existing worktree has just failed
C9_Witness ==
  /\ git = {[cmd |-> "worktree remove", branch |-> TaskA]}
  /\ TaskA \notin removed
  /\ App.taskStatus[TaskA].type = "error"
  /\ App.page = "idle"
  /\ Len(App.paths) = 2

----------------------------------------------------------------------------
(* The metadata refresh alone: a token is set, and the keys are those of   *)
(* the update page.                                                        *)

RefreshKeys == {"u", "a", "s", "Esc"}

\* the first worktree is the current one, and the store holds no metadata yet
InitRefresh ==
  /\ Init
  /\ App.token
  /\ statuses = stringify({})
  /\ App.selected = 0
  /\ \A b \in BranchU : store[b] = NoTask

NextRefresh ==
  \/ KeyEvent(RefreshKeys)
  \/ Tick
  \/ KeyRelease
  \/ StatusTimer
  \/ FetchDone

SpecRefresh == InitRefresh /\ [][NextRefresh]_vars

\* C10: when the fetches of a batch have all returned, at least one failed and at
\* least one succeeded, the batch did not end with the success status, and the
\* metadata of every task that was fetched is in the cache and in the store.
C10_PartialFailurePersists ==
  \A i \in DOMAIN batches :
    (/\ batches[i].kind = "tasks"
     /\ batches[i].pending = {}
     /\ batches[i].failed # {}
     /\ batches[i].ok # {}) =>
      /\ batches[i].settled # "ok"
      /\ \A taskId \in batches[i].ok :
           App.tasks[taskId] = NewTask /\ store[taskId] = NewTask

\* C11: the outcome of a batch refresh (the closing status and the write of the
\* store) is produced only when every fetch of the batch has returned: a batch
\* whose outcome is out has no fetch still in flight.
C11_AggregateAfterAllSettle ==
  \A i \in DOMAIN batches :
    (batches[i].kind = "tasks" /\ batches[i].settled # "no") =>
      batches[i].pending = {}

----------------------------------------------------------------------------
(* The edit-task page alone: a token is set, a task with cached metadata   *)
(* is selected, and the keys open and leave the page.                      *)

EditKeys == {"e", "Esc"}

InitEdit ==
  /\ Init
  /\ App.token
  /\ isTask(getSelectedBranch(App))
  /\ \A b \in BranchU : isTask(b) => App.tasks[b] = OldTask

NextEdit ==
  \/ (nkeys < MaxEditKeys /\ KeyEvent(EditKeys))
  \/ Tick
  \/ KeyRelease
  \/ StatusLoad

SpecEdit == InitEdit /\ [][NextEdit]_vars

\* C12: runOnce does not run its callback for an id whose earlier callback has
\* not called resolve yet, so that at most one status-list load is in flight
\* however many render ticks pass while it is loading.
C12_OneLoadInFlight == Len(loads) <= 1

\* a load of the status list has just failed: its catch is the last callback run
LoadJustFailed == \E i \in 1..Len(calls) : calls[i] = <<"load-statuses", "catch">>

\* C13: after a failed load of the status list, no request is issued for it until
\* a key is received: a step that is not a key event and follows the failure
\* starts no load of the status list, and no step but a key event or the start
\* of the program starts a task fetch.
C13_NoAutomaticRetry ==
  [][(nkeys' = nkeys) =>
       /\ LoadJustFailed => Len(loads') <= Len(loads)
       /\ \A i \in DOMAIN batches :
            batches'[i].pending \subseteq batches[i].pending]_vars

----------------------------------------------------------------------------
(* The program without a token: the keys are those of the idle actions    *)
(* that need the remote service, of the search mode and of the token page. *)

TokenKeys == {"t", "u", "e", "/", "Esc"}

InitNoToken == Init /\ ~App.token

NextNoToken ==
  \/ (nkeys < MaxTokenKeys /\ KeyEvent(TokenKeys))
  \/ Tick
  \/ KeyRelease

SpecNoToken == InitNoToken /\ [][NextNoToken]_vars

\* the actions of the idle page with this label in the live list of A
IdleActions(A, label) ==
  {i \in 1..Len(A.actions) : A.actions[i].owner = "idle" /\ A.actions[i].label = label}

MissingTokenShown(A) == A.status.type = "error" /\ includesToken(A.status.message)

StickyMessages ==
  {"unable to delete branch ", "unable to delete local branch: ",
   "unable to delete remote branch: "}

StickyStatus(status) ==
  /\ status.type = "error"
  /\ status.message # <<>>
  /\ status.message[1] \in StickyMessages

\* C15: a status set without a timeout stays until it is cleared by the user or
\* replaced by a later setStatus: the expiry timer of an earlier status, when it
\* fires, leaves it in place.
C15_StickyStatusSurvivesTimer ==
  [][(StatusTimer /\ StickyStatus(App.status)) => App'.status = App.status]_vars

----------------------------------------------------------------------------
(* Keys of the delete confirmation while the fetches started by main are   *)
(* in flight.                                                              *)

FetchKeys == {"d", "n"}

NextFetch ==
  \/ (nkeys < MaxFetchKeys /\ KeyEvent(FetchKeys))
  \/ Tick
  \/ KeyRelease
  \/ StatusTimer
  \/ FetchDone

SpecFetch == InitRefresh /\ [][NextFetch]_vars

\* C16: from the start of fetchTask(t) until its completion callback has run, the
\* task status of t is the info status "fetching task information...", whatever
\* keys and timers are handled in between.
C16_FetchingShownWhileInFlight ==
  \A i \in DOMAIN batches : \A taskId \in batches[i].pending :
    App.taskStatus[taskId] = Status("info", <<"fetching task information...">>)

----------------------------------------------------------------------------
(* consumeKey called by the input handler and by other callers, with stub  *)
(* actions as callbacks.                                                   *)

\* App.consumeKey(key, callback) is called outside the input handler, with the
\* callback of the i-th action
ConsumeCall(key, i) ==
  /\ running
  /\ i \in 1..Len(App.actions)
  /\ Apply(consumeKey(World, key, App.actions[i]))
  /\ UNCHANGED nkeys

Consume == \E key \in DispatchKeys, i \in 1..MaxActions : ConsumeCall(key, i)

NextConsume ==
  \/ (Len(App.actions) < MaxConsumeActions /\ AddStub)
  \/ (nkeys < MaxConsumeKeys /\ KeyEvent(DispatchKeys))
  \/ KeyRelease
  \/ Consume

SpecConsume == InitDispatch /\ [][NextConsume]_vars

\* C17: consumeKey invokes its callback at most once per press: a call for a held
\* key invokes the callback once and leaves the key not held, and a call for a
\* key that is not held (consumed or released, and not pressed again) invokes
\* nothing.
C17_ConsumeOncePerPress ==
  [][\A key \in DispatchKeys, i \in 1..MaxActions : ConsumeCall(key, i) =>
       IF key \in App.keys
         THEN calls' = <<ActionId(i)>> /\ key \notin App'.keys
         ELSE calls' = <<>>]_vars

\* a key that matched no action stayed held, and a later consumeKey call has
\* consumed it before its release timer fired
C17_Witness ==
  /\ calls # <<>>
  /\ keyTimers # <<>>
  /\ keyTimers[1] \notin App.keys

\* C18: for every key event the input handler schedules the synthesized release
\* of the key after the dispatch, whether or not an action matched it.
C18_ReleaseAlwaysScheduled ==
  [][\A key \in DispatchKeys : OnData(key) => keyTimers' = Append(keyTimers, key)]_vars

\* in the state a step leads to, the shell command c that the step started is
\* still running: its outcome is not in the state yet
InFlightAfter(c) ==
  CASE c.cmd = "worktree remove" ->
         App'.taskStatus[c.branch] = Status("info", <<"deleting worktree...">>)
    [] c.cmd = "branch -D" ->
         \E i \in DOMAIN brDel' : brDel'[i].branch = c.branch /\ brDel'[i].local = "pending"
    [] c.cmd = "push origin :" ->
         \E i \in DOMAIN brDel' : brDel'[i].branch = c.branch /\ brDel'[i].remote = "pending"

\* C19: no shell command started by an action runs as one blocking step: the
\* step that starts it ends with the command in flight, so that render ticks
\* and key events can be handled before its completion.
C19_ShellOutsDoNotBlock ==
  [][\A c \in git' : InFlightAfter(c)]_vars

\* C20: toPage(p) stores the page that is current before the call in the
\* previous-page slot and makes p the current page, and in every state of the
\* running program the current page is one page of the enumeration.
C20_ToPageRecordsPrevious ==
  running =>
    /\ App.page \in Pages
    /\ App.previousPage \in Pages \cup {"none"}
    /\ \A p \in Pages :
         LET A == toPage(World, p).App
         IN A.page = p /\ A.previousPage = App.page

\* toPage has run twice: the delete flow went from the confirmation page to
\* the delete-branch page
C20_Witness ==
  /\ running
  /\ App.page = "delete-branch"
  /\ App.previousPage = "delete-worktree"

\* C21: previousPage() makes the remembered previous page the current page, and
\* leaves the current page unchanged when no previous page has been recorded.
C21_PreviousPageGoesBack ==
  running =>
    LET A == previousPage(World).App
    IN IF App.previousPage = "none" THEN A = App ELSE A.page = App.previousPage

\* the back action of the token page has called previousPage, which led to idle
C21_Witness ==
  /\ running
  /\ calls = << <<"token", "back">> >>
  /\ App.page = "idle"
  /\ App.previousPage = "token"

----------------------------------------------------------------------------
(* The version of the program that keeps the typed token in App.input     *)
(* (src/unnamed/part_000): its action tables carry `cond` instead of      *)
(* `disabled`, its input handler calls the callback directly and appends  *)
(* an unmatched key to App.input on the token page.                       *)

\* the actions setupActions registers for a page, `cond` written as its negation
InputTable(page) ==
  LET Act(label, shortcut, hidden, disabled) ==
        Action(page, label, shortcut, hidden, disabled, FALSE)
  IN CASE page = "idle" ->
          << Act("open", <<"Enter">>, FALSE, "never"),
             Act("view", DefaultShortcut("view"), FALSE, "not task"),
             Act("pull request", DefaultShortcut("pull request"), FALSE, "master"),
             Act("copy", DefaultShortcut("copy"), FALSE, "never"),
             Act("update", DefaultShortcut("update"), FALSE, "no token"),
             Act("token", DefaultShortcut("token"), FALSE, "has token"),
             Act("delete", DefaultShortcut("delete"), FALSE, "never") >>
       [] page = "update" ->
          << Act("all", DefaultShortcut("all"), FALSE, "no token"),
             Act("selected", DefaultShortcut("selected"), FALSE, "no token"),
             Act("back", <<"Esc">>, FALSE, "never") >>
       [] page = "token" ->
          << Act("set token", <<"Enter">>, FALSE, "no input"),
             Act("back", <<"Esc">>, FALSE, "never"),
             Act("erase", <<"Backspace">>, TRUE, "never") >>
       [] page = "delete-worktree" ->
          << Act("yes", DefaultShortcut("yes"), FALSE, "never"),
             Act("no", DefaultShortcut("no"), FALSE, "never") >>
       [] page = "delete-branch" ->
          << Act("yes", DefaultShortcut("yes"), FALSE, "never"),
             Act("no", DefaultShortcut("no"), FALSE, "never") >>
       [] OTHER -> <<>>

\* setupActions(): the list is emptied, the actions of the page and quit are added
setupActionsInput(w) ==
  [w EXCEPT !.App.actions =
     InputTable(w.App.page)
       \o << Action("default", "quit", DefaultShortcut("quit"), TRUE, "never", FALSE) >>]

\* App.input.slice(0, -1)
slice(input) == IF input = <<>> THEN <<>> ELSE SubSeq(input, 1, Len(input) - 1)

\* the callbacks of this version that the keys of InputKeys can invoke
CallbackInput(act, w) ==
  LET id == <<act.owner, act.label>>
  IN CASE id = <<"idle", "token">> -> toPage(w, "token")
       [] id = <<"idle", "delete">> -> deleteConfirmation(w)
       [] id = <<"token", "back">> -> previousPage([w EXCEPT !.App.input = <<>>])
       [] id = <<"token", "erase">> -> [w EXCEPT !.App.input = slice(@)]
       [] id = <<"delete-worktree", "no">> -> deleteWorktreeNo(w)
       [] id = <<"default", "quit">> -> quit(w)

\* input.on("data"): navigation, the first action whose cond holds and whose
\* shortcut includes the key, else the key is typed into the token buffer
OnDataInput(key) ==
  /\ running
  /\ nkeys < MaxInputKeys
  /\ LET w1 == IF World.App.page \in {"update", "idle"}
                 THEN CASE key = "j" -> selectNext(World)
                        [] key = "k" -> selectPrevious(World)
                        [] key = "c" /\ World.App.status # NoStatus -> clearStatus(World)
                        [] OTHER -> World
                 ELSE World
         hits == Dispatch(w1.App.actions, key, w1.App)
         act == w1.App.actions[Head(hits)]
         w2 == IF hits # <<>>
                 THEN CallbackInput(act, [w1 EXCEPT !.calls = <<<<act.owner, act.label>>>>])
               ELSE IF w1.App.page = "token"
                 THEN [w1 EXCEPT !.App.input = Append(@, key)]
               ELSE w1
     IN /\ Apply(w2)
        /\ nkeys' = nkeys + 1

\* loop() of this version
loopInput(w) == tokenStatus(setupActionsInput(w))

TickInput ==
  /\ running
  /\ Apply(loopInput(World))
  /\ UNCHANGED nkeys

InputKeys == {"t", "a", "q", "d", "n", "Backspace", "Esc"}

\* main() of this version without a token: the first loop() has run
InitInput ==
  \E paths \in InitPaths, tasks \in StoredTasks :
    \E selected \in 0..(Len(paths) - 1) :
      LET w == loopInput(InitWorld(InitApp(paths, selected, FALSE, tasks), {}))
      IN /\ App = w.App
         /\ wtTimers = w.wtTimers
         /\ brDel = w.brDel
         /\ batches = w.batches
         /\ statusTimers = w.statusTimers
         /\ keyTimers = w.keyTimers
         /\ git = w.git
         /\ removed = w.removed
         /\ store = w.store
         /\ running = w.running
         /\ calls = w.calls
         /\ _running = w._running
         /\ loads = w.loads
         /\ statuses = w.statuses
         /\ nkeys = 0

KeyEventInput == \E key \in InputKeys : OnDataInput(key)

NextInput ==
  \/ KeyEventInput
  \/ TickInput

SpecInput == InitInput /\ [][NextInput]_vars

\* C22: whenever the page becomes token, through toPage or through previousPage,
\* the text input buffer is empty right afterwards: whatever the buffer holds,
\* toPage("token") empties it, previousPage() empties it when it leads to the
\* token page, and no step ends on the token page it entered with text in the
\* buffer.
C22_TokenPageStartsEmpty ==
  /\ [](running =>
         /\ toPage(World, "token").App.input = <<>>
         /\ App.previousPage = "token" => previousPage(World).App.input = <<>>)
  /\ [][(running' /\ App.page # "token" /\ App'.page = "token") => App'.input = <<>>]_vars

\* text was typed on the token page and the page was left without emptying the
\* buffer, so that previousPage() would lead back to it
C22_Witness ==
  /\ running
  /\ App.input # <<>>
  /\ App.page # "token"
  /\ App.previousPage = "token"

\* no key is in the shortcut of two actions of the list
NoSharedShortcut(actions) ==
  \A i, j \in 1..Len(actions) :
    i < j => ~\E m \in 1..Len(actions[i].shortcut), n \in 1..Len(actions[j].shortcut) :
               actions[i].shortcut[m] = actions[j].shortcut[n]

\* C23: on every page, no two actions of the live list (the actions the page
\* declares, then quit) bind the same key, an action without a shortcut binding
\* the first character of its label.
C23_OneActionPerShortcut ==
  running =>
    /\ NoSharedShortcut(App.actions)
    /\ \A p \in Pages :
         NoSharedShortcut(setupActions([World EXCEPT !.App.page = p]).App.actions)

\* a render tick has rebuilt the live list on the token page
C23_Witness ==
  /\ running
  /\ App.page = "token"
  /\ Len(App.actions) = 3
  /\ App.actions[1].owner = "token"
  /\ App.actions[3].label = "quit"

\* the list ids the file of the status cache holds statuses for
SavedLists == statuses.of

\* C24: once loadOrFetchStatuses has fetched the statuses of a list and saved
\* them, a later loadOrFetchStatuses for the list takes them from the file and
\* calls Clickup.getStatuses no more: it leaves the requests in flight as they
\* are.
C24_SavedStatusesReused ==
  (running /\ ListId \in SavedLists /\ Len(loads) < MaxLoads) =>
    loadOrFetchStatuses(World, ListId).loads = loads

----------------------------------------------------------------------------
(* The add page: the keys are those that open it, type a branch that has   *)
(* a worktree or one that has none, move the focus, submit and cancel.     *)

AddKeys == {"a", "-", "Tab", "Backspace", "Enter", "Esc"}

InitAdd ==
  /\ Init
  /\ ~App.token
  /\ statuses = stringify({})
  /\ \A b \in BranchU : store[b] = NoTask

NextAdd ==
  \/ (nkeys < MaxAddKeys /\ KeyEvent(AddKeys))
  \/ Tick
  \/ KeyRelease
  \/ StatusTimer

SpecAdd == InitAdd /\ [][NextAdd]_vars

Forms == {"TokenForm", "AddForm", "EditForm"}

\* C25: adding an element whose name is registered leaves the element list and
\* the value map of the container as they are; a render tick, which adds the
\* elements of the page's form again, leaves the elements that were registered
\* as they were and, when no key is held, every typed value as it was.
C25_AddIdempotent ==
  /\ [](running =>
          \A f \in Forms :
            LET c == App.forms[f]
            IN \A name \in DOMAIN c.value :
                 registered(c, name) =>
                   /\ add(c, name).elements = c.elements
                   /\ add(c, name).value = c.value)
  /\ [][(Tick /\ running') =>
          \A f \in Forms :
            LET c == App.forms[f]
            IN /\ c.elements # <<>> => App'.forms[f].elements = c.elements
               /\ App.keys = {} => App'.forms[f].value = c.value]_vars

\* the add form holds its four elements and a branch typed over two ticks
C25_Witness ==
  /\ running
  /\ App.forms.AddForm.elements = AddElements
  /\ Len(App.forms.AddForm.value["branch"]) = 2

----------------------------------------------------------------------------
(* The pages with a form, with a token and the metadata of every task: the *)
(* keys open the add page and the edit-task page, type, toggle, move the   *)
(* focus and cancel.                                                       *)

FormKeys == {"a", "e", " ", "Tab", "Esc"}

NextForms ==
  \/ (nkeys < MaxFormKeys /\ KeyEvent(FormKeys))
  \/ Tick
  \/ KeyRelease
  \/ StatusLoad

SpecForms == InitEdit /\ [][NextForms]_vars

\* the page a form belongs to
PageOfForm(f) ==
  CASE f = "TokenForm" -> "token"
    [] f = "AddForm" -> "add"
    [] f = "EditForm" -> "edit-task"

\* the default an element has when the state is A: the status of the edit form
\* gets one when the status list has been loaded, no other element has one
DeclaredDefault(A, f, name) ==
  IF f = "EditForm" /\ name = "status" /\ A.forms.options THEN TaskStatusId
  ELSE EmptyValue(name)

\* the container c of form f is as reset() must leave it
IsReset(A, f, c) ==
  /\ \A name \in DOMAIN c.value : c.value[name] = DeclaredDefault(A, f, name)
  /\ c.focus = 0

\* C26: whatever was typed and wherever the focus is, reset() leaves every value
\* at its declared default, empty when none is declared, and the focus index at
\* 0; and an event whose handler ran the back action of a form's page leaves
\* that form so.
C26_ResetRestoresDefaults ==
  /\ [](running => \A f \in Forms : IsReset(App, f, reset(App.forms[f])))
  /\ [][\A f \in Forms :
         (running' /\ \E i \in 1..Len(calls') : calls'[i] = <<PageOfForm(f), "back">>) =>
           IsReset(App', f, App'.forms[f])]_vars

\* back has just reset the edit form after the status list was loaded: the
\* status is at the default the load declared
C26_Witness ==
  /\ running
  /\ calls = << <<"edit-task", "back">> >>
  /\ App.forms.EditForm.elements = EditElements
  /\ App.forms.EditForm.value["status"] = TaskStatusId
  /\ App.forms.EditForm.focus = 0

----------------------------------------------------------------------------
\* the printable keys among those received
PrintableInputKeys == InputKeys \ {"Backspace", "Esc"}

\* the token page is current and the live list is the one built for it
TokenInputFocused ==
  /\ running
  /\ App.page = "token"
  /\ App.actions # <<>>
  /\ App.actions[1].owner = "token"

\* C27: while the text input of the token page has the focus, a printable key
\* is appended to the text and Backspace removes exactly its last character.
C27_TypingAppendsBackspaceErases ==
  [][\A key \in InputKeys :
       (TokenInputFocused /\ OnDataInput(key)) =>
         /\ key \in PrintableInputKeys => (running' /\ App'.input = Append(App.input, key))
         /\ key = "Backspace" => (running' /\ App'.input = slice(App.input))]_vars

----------------------------------------------------------------------------
\* the branch typed into the add form is the branch of a worktree of the list
BranchExists(A) == worktreesOf(A, A.forms.AddForm.value["branch"]) # {}

\* C28: isValid() of a form is true exactly when the valid flag of each of its
\* elements is true; the create action of the add page runs only in a state in
\* which AddForm.isValid() is true; and Enter on the add page, while the branch
\* field holds the branch of a worktree of the list, issues no worktree-add
\* command.
C28_CreateOnlyWhenValid ==
  /\ [](running =>
          \A f \in Forms :
            LET c == App.forms[f]
            IN isValid(c) <=> \A name \in DOMAIN c.valid : registered(c, name) => c.valid[name])
  /\ [][(\E i \in 1..Len(calls') : calls'[i] = <<"add", "create">>) =>
          AddFormIsValid(App)]_vars
  /\ [][(running /\ App.page = "add" /\ BranchExists(App) /\ OnData("Enter")) =>
          /\ \A c \in git' : c.cmd # "worktree add"
          /\ \A i \in 1..Len(calls') : calls'[i] # <<"add", "create">>]_vars

\* Enter has been pressed on the add page while the branch typed is that of a
\* worktree: the form is invalid, no callback ran and the key is still held
C28_Witness ==
  /\ running
  /\ App.page = "add"
  /\ BranchExists(App)
  /\ ~AddFormIsValid(App)
  /\ "Enter" \in App.keys
  /\ calls = <<>>
  /\ git = {}

----------------------------------------------------------------------------
\* the first character of the labels "s1", "s2", "s3" of the stub actions
StubFirstChar == "s"

\* the stub action was registered without a shortcut: the shortcuts given to
\* stubs are made of "y" and "n"
Defaulted(act) ==
  /\ act.owner = "stub"
  /\ \A i \in 1..Len(act.shortcut) : act.shortcut[i] \notin {"y", "n"}

\* action i of the live list is enabled and no enabled action before it is bound to the key
FirstEnabled(A, i, key) ==
  /\ ~Disabled(A.actions[i], A)
  /\ \A j \in 1..(i - 1) :
       Disabled(A.actions[j], A) \/ ~includes(A.actions[j].shortcut, key)

\* C29: an action registered without a shortcut is bound to the first
\* character of its label and to nothing else: a key event invokes its callback
\* exactly when the key is that character, the action is enabled and no
\* enabled action registered before it is bound to the same key.
C29_DefaultShortcutOnly ==
  /\ [](running =>
          \A i \in 1..Len(App.actions) :
            Defaulted(App.actions[i]) => App.actions[i].shortcut = <<StubFirstChar>>)
  /\ [][\A key \in DispatchKeys :
         \A i \in 1..Len(App.actions) :
           (OnData(key) /\ Defaulted(App.actions[i])) =>
             ((\E k \in 1..Len(calls') : calls'[k] = <<"stub", App.actions[i].label>>)
                <=> (key = StubFirstChar /\ FirstEnabled(App, i, key)))]_vars

\* the first character of its label has invoked a stub registered without a shortcut
C29_Witness ==
  /\ running
  /\ \E i \in 1..Len(App.actions) :
       /\ Defaulted(App.actions[i])
       /\ App.actions[i].shortcut = <<StubFirstChar>>
       /\ calls = << <<"stub", App.actions[i].label>> >>

----------------------------------------------------------------------------
(* Navigation: the keys move the selection, enter the search mode and open *)
(* the update page and the add page, whose form sets a status.             *)

NavKeys == {"j", "K", "/", "u", "a", "Esc"}

NextNav ==
  \/ (nkeys < MaxNavKeys /\ KeyEvent(NavKeys))
  \/ Tick
  \/ KeyRelease

SpecNav == InitEdit /\ [][NextNav]_vars

\* the keys of the immediate key actions
ImmediateKeys ==
  {"j", "ArrowDown", "k", "ArrowUp", "c", "K", "ShiftArrowUp", "J", "ShiftArrowDown"}

Browsing(A) == A.page \in {"idle", "update"} /\ A.mode # "search"

\* C30: the navigation step of the input handler changes nothing but the
\* selected index and the status; on the idle and update pages outside the
\* search mode j and arrow-down select the next path, k and arrow-up the
\* previous one, K the first, J the last, and c clears the status; on every
\* other page and in the search mode it leaves the selected index and the
\* status as they are.
C30_NavigationOnlyWhenBrowsing ==
  running =>
    \A key \in ImmediateKeys :
      LET w == navigate(World, key)
          last == Len(App.paths) - 1
      IN /\ w = [World EXCEPT !.App.selected = w.App.selected, !.App.status = w.App.status]
         /\ ~Browsing(App) => (w.App.selected = App.selected /\ w.App.status = App.status)
         /\ Browsing(App) =>
              /\ w.App.selected =
                   CASE key \in {"j", "ArrowDown"} ->
                          IF App.selected + 1 < last THEN App.selected + 1 ELSE last
                     [] key \in {"k", "ArrowUp"} ->
                          IF App.selected - 1 > 0 THEN App.selected - 1 ELSE 0
                     [] key \in {"K", "ShiftArrowUp"} -> 0
                     [] key \in {"J", "ShiftArrowDown"} -> last
                     [] OTHER -> App.selected
              /\ w.App.status = IF key = "c" THEN NoStatus ELSE App.status

\* j has been pressed in the search mode with the first path selected: the
\* selection has not moved
C30_Witness ==
  /\ running
  /\ App.page = "idle"
  /\ App.mode = "search"
  /\ "j" \in App.keys
  /\ App.selected = 0

\* C31: every branch-delete command ("branch -D", "push origin :") issued by
\* the delete-branch step targets a branch whose worktree was removed by the
\* preceding delete-worktree step, for every interleaving of key events,
\* render ticks and the delayed worktree-remove completion.
BranchDeleteCommands == {"branch -D", "push origin :"}

C31_BranchDeleteTargetsRemoved ==
  [][\A c \in git' : c.cmd \in BranchDeleteCommands => c.branch \in removed']_vars

\* C32: for one delete confirmation (one entry into the delete-worktree page)
\* the worktree-remove command is executed at most once: once "y" has started
\* the removal (the selected branch shows the in-progress status and the page
\* is still delete-worktree), no later event schedules another removal.
RemovalStarted ==
  /\ running
  /\ App.page = "delete-worktree"
  /\ wtTimers # <<>>
  /\ App.taskStatus[getSelectedBranch(App)] = Status("info", <<"deleting worktree...">>)

C32_RemoveAtMostOnce ==
  [][RemovalStarted => Len(wtTimers') <= Len(wtTimers)]_vars

----------------------------------------------------------------------------
(* Search: "/" enters the search mode on the idle page, the keys typed go  *)
(* to the search input on the next tick, Enter confirms the selection and  *)
(* Escape leaves the mode.                                                 *)

MaxSearchKeys == 4

SearchKeys == {"/", "a", "-", "q", "Enter", "Esc"}

NextSearch ==
  \/ (nkeys < MaxSearchKeys /\ KeyEvent(SearchKeys))
  \/ Tick
  \/ KeyRelease

SpecSearch == InitNoToken /\ [][NextSearch]_vars

\* C33: whenever the path list is not empty the selected index is a valid
\* index of it, after navigation, after confirming a search with Enter and
\* after removing the selected branch.
C33_SelectedInRange ==
  (running /\ App.paths # <<>>) => (0 <= App.selected /\ App.selected < Len(App.paths))

\* C34: removeSelectedBranchFromList removes exactly the selected path and
\* keeps every other path, in the original order: a step of the delete flow
\* that changes the path list leaves the list without its selected entry.
C34_RemovesExactlySelected ==
  [][(running /\ running' /\ App'.paths # App.paths) =>
       /\ 0 <= App.selected /\ App.selected < Len(App.paths)
       /\ App'.paths = RemoveAt(App.paths, App.selected + 1)]_vars

----------------------------------------------------------------------------
(* The delete flow with a search and with the task fetches main() starts   *)
(* still in flight.                                                        *)

MaxDeleteFetchKeys == 4

DeleteFetchKeys == {"d", "y", "n", "/"}

NextDeleteFetch ==
  \/ (nkeys < MaxDeleteFetchKeys /\ KeyEvent(DeleteFetchKeys))
  \/ Tick
  \/ KeyRelease
  \/ StatusTimer
  \/ WorktreeTimer
  \/ BranchExec
  \/ FetchDone

SpecDeleteFetch == InitRefresh /\ [][NextDeleteFetch]_vars

\* the live action list is the one setupActions builds for the current page
\* and the current mode
LiveListCurrent ==
  \A i \in 1..Len(App.actions) :
    /\ App.actions[i].owner \in {App.page, "default"}
    /\ App.actions[i].searching = (App.mode = "search")

\* C35: in every reachable state the search mode implies that the current
\* page is idle; stated for the steps that start in the search mode on the
\* idle page with the action list built for it: they end on the idle page or
\* out of the search mode.
C35_SearchOnlyOnIdle ==
  [][(running /\ App.mode = "search" /\ App.page = "idle" /\ LiveListCurrent /\ running') =>
       (App'.mode = "search" => App'.page = "idle")]_vars

\* C36: while a text field is receiving keys (here the search input, in the
\* search mode on the idle page, focused, with the action list built for that
\* page and mode) pressing "q" does not invoke quit.
SearchInputFocused ==
  /\ running
  /\ App.page = "idle"
  /\ App.mode = "search"
  /\ LiveListCurrent
  /\ hasFocus(App.forms.SearchForm)

C36_TypingQDoesNotQuit ==
  [][(SearchInputFocused /\ OnData("q")) => running']_vars

\* C37: the completion of a refresh started from the update page changes the
\* page to idle only if the page is still update; on any other page the
\* completion leaves the page as it is.
C37_CompletionKeepsOtherPage ==
  [][(FetchDone /\ App.page # "update") => App'.page = App.page]_vars

----------------------------------------------------------------------------
(* The edit-task page entered before the metadata of the selected task has *)
(* arrived: the fetches main() starts are still in flight.                 *)

NextEditFetch ==
  \/ (nkeys < MaxEditKeys /\ KeyEvent(EditKeys))
  \/ Tick
  \/ KeyRelease
  \/ StatusTimer
  \/ StatusLoad
  \/ FetchDone

SpecEditFetch == InitRefresh /\ [][NextEditFetch]_vars

\* C38: after every render tick, if the page is edit-task the selected branch
\* has cached task metadata; a tick that finds the edit-task page without
\* metadata for the selected branch moves the page to idle and issues no
\* status-list request.
C38_EditTaskNeedsMetadata ==
  [][(Tick /\ running') =>
       /\ App'.page = "edit-task" => App'.tasks[getSelectedBranch(App')] # NoTask
       /\ (App.page = "edit-task" /\ App.tasks[getSelectedBranch(App)] = NoTask) =>
            /\ App'.page = "idle"
            /\ loads' = loads
            /\ _running' = _running]_vars

\* a tick has found the edit-task page without metadata and has gone back to idle
C38_Witness ==
  /\ running
  /\ App.page = "idle"
  /\ App.previousPage = "edit-task"
  /\ App.tasks[getSelectedBranch(App)] = NoTask
  /\ calls = <<>>
  /\ loads = <<>>

\* the add page is current, its action list is live and the focused element
\* of its form is a text input
AddInputFocused ==
  /\ running
  /\ App.page = "add"
  /\ LiveListCurrent
  /\ hasFocus(App.forms.AddForm)
  /\ ElementType(App.forms.AddForm.elements[App.forms.AddForm.focus + 1]) = "input"

\* C39: every key press that matches no action and arrives while a text input
\* has the focus is consumed by the form exactly once on a later render tick,
\* and none is lost: a release timer of an earlier press of a key that fires
\* while a later press of the same key has its own timer pending does not
\* take a held key away from the form.
C39_NoPressLost ==
  [][(AddInputFocused /\ KeyRelease /\ Len(keyTimers) > 1
        /\ \A i \in 1..Len(keyTimers) : keyTimers[i] = keyTimers[1])
       => App'.keys = App.keys]_vars

DeleteFlowPages == {"delete-worktree", "delete-branch"}

\* a confirmation prompt, or the info status of a deletion in progress
PromptOrProgress(status) ==
  \/ status.type = "confirmation"
  \/ status \in {Status("info", <<"deleting worktree...">>),
                 Status("info", <<"deleting branch...">>)}

\* C40: while the page is delete-worktree or delete-branch, the task status
\* of the selected branch is a confirmation prompt or the in-progress info
\* status: no status-expiry timer and no task-fetch completion removes or
\* replaces it while the page stays on the delete flow.
C40_PromptSurvivesCompletions ==
  [][(/\ running
      /\ App.page \in DeleteFlowPages
      /\ PromptOrProgress(App.taskStatus[getSelectedBranch(App)])
      /\ FetchDone \/ StatusTimer
      /\ App'.page \in DeleteFlowPages)
       => PromptOrProgress(App'.taskStatus[getSelectedBranch(App')])]_vars

====
